---------------------------- MODULE Spec2Model ----------------------------
(***************************************************************************)
(* Model of webgl/transcoder/basis_wrappers.cpp: the basis_file container  *)
(* wrapper, the low-level ETC1S session wrapper and process-wide           *)
(* initialisation (basis_init).                                            *)
(*                                                                         *)
(* uint32_t values are little-endian tuples of four bytes, so that the     *)
(* wrap-around of the C arithmetic (mod 2^32) is computed exactly; the     *)
(* mathematical (unbounded) values the claims speak of are byte sequences  *)
(* of any length.                                                          *)
(***************************************************************************)
EXTENDS Integers, Sequences, FiniteSets, TLC

-----------------------------------------------------------------------------
(* Arithmetic on byte sequences (little-endian, base 256).                   *)

\* The i-th byte of a, zero beyond its length.
Digit(a, i) == IF i <= Len(a) THEN a[i] ELSE 0

\* The first n bytes of the number k >= 0.
RECURSIVE Bytes(_, _)
Bytes(k, n) == IF n = 0 THEN <<>> ELSE <<k % 256>> \o Bytes(k \div 256, n - 1)

\* A small number as a uint32_t.
U32(k) == Bytes(k, 4)

\* Truncation of a byte sequence to 32 bits (the conversion to uint32_t).
Trunc32(a) == [i \in 1..4 |-> Digit(a, i)]

\* The value of a byte sequence, for values below 2^31.
RECURSIVE ToNat(_)
ToNat(a) == IF Len(a) = 0 THEN 0 ELSE a[1] + 256 * ToNat(Tail(a))

\* a and b denote the same number.
NumEq(a, b) ==
    \A i \in 1..(IF Len(a) > Len(b) THEN Len(a) ELSE Len(b)) : Digit(a, i) = Digit(b, i)

\* a < b as numbers: compared from the most significant byte down.
RECURSIVE LtFrom(_, _, _)
LtFrom(a, b, i) ==
    IF i = 0 THEN FALSE
    ELSE IF Digit(a, i) # Digit(b, i) THEN Digit(a, i) < Digit(b, i)
    ELSE LtFrom(a, b, i - 1)

NumLt(a, b) == LtFrom(a, b, IF Len(a) > Len(b) THEN Len(a) ELSE Len(b))

NumLe(a, b) == ~NumLt(b, a)

\* Exact sum, Len = max length + 1.
RECURSIVE AddFrom(_, _, _, _, _)
AddFrom(a, b, i, n, carry) ==
    IF i > n THEN <<>>
    ELSE LET t == Digit(a, i) + Digit(b, i) + carry
         IN  <<t % 256>> \o AddFrom(a, b, i + 1, n, t \div 256)

BigAdd(a, b) == AddFrom(a, b, 1, (IF Len(a) > Len(b) THEN Len(a) ELSE Len(b)) + 1, 0)

\* Column k of the schoolbook product: the sum of a[i] * b[k + 1 - i].
RECURSIVE Conv(_, _, _, _)
Conv(a, b, k, i) ==
    IF i > Len(a) THEN 0
    ELSE (IF k + 1 - i >= 1 /\ k + 1 - i <= Len(b) THEN a[i] * b[k + 1 - i] ELSE 0)
         + Conv(a, b, k, i + 1)

RECURSIVE MulFrom(_, _, _, _)
MulFrom(a, b, k, carry) ==
    IF k > Len(a) + Len(b) THEN <<>>
    ELSE LET t == Conv(a, b, k, 1) + carry
         IN  <<t % 256>> \o MulFrom(a, b, k + 1, t \div 256)

\* Exact product, Len = Len(a) + Len(b).
BigMul(a, b) == MulFrom(a, b, 1, 0)

\* Quotient by a small divisor d: long division from the top byte.
RECURSIVE DivFrom(_, _, _, _)
DivFrom(a, d, i, rem) ==
    IF i = 0 THEN <<>>
    ELSE LET t == rem * 256 + a[i]
         IN  DivFrom(a, d, i - 1, t % d) \o <<t \div d>>

BigDiv(a, d) == DivFrom(a, d, Len(a), 0)

\* uint32_t arithmetic: the exact result reduced mod 2^32.
Add32(a, b) == Trunc32(BigAdd(a, b))
Mul32(a, b) == Trunc32(BigMul(a, b))
Div32(a, d) == Trunc32(BigDiv(a, d))
Max32(a, b) == IF NumLt(a, b) THEN b ELSE a

\* x & ~3 on a uint32_t: clears the two low bits.
AndNot3(a) == [a EXCEPT ![1] = a[1] - (a[1] % 4)]

-----------------------------------------------------------------------------
(* transcoder_texture_format: the enumerants the wrapper names, with the     *)
(* values of the library's enum.                                             *)

cTFPVRTC1_4_RGB == 8
cTFPVRTC1_4_RGBA == 9
cTFRGBA32 == 13
cTFRGB565 == 14
cTFBGR565 == 15
cTFRGBA4444 == 16
cTFTotalTextureFormats == 22

\* MAGIC is 0xDEADBEE1, as a uint32_t.
MAGIC == <<225, 190, 173, 222>>

Zero32 == U32(0)

-----------------------------------------------------------------------------
(* Bounds of the model.                                                      *)

\* Image and level indices passed to the queries range over 0..MaxIndex.
MaxIndex == 2

\* Formats passed to the entry points range over 0..MaxFormat; the values
\* from cTFTotalTextureFormats up are out of range.
MaxFormat == 23

\* Video frames decoded into one session's previous-frame state.
MaxFrames == 2
MaxCallers == 3

Indices == 0..MaxIndex
Callers == 1..MaxCallers
Formats == 0..MaxFormat

\* Byte capacities of the destination buffers handed to transcodeImage.
DstCaps == {31, 32, 127, 128}

\* The low-level entry points are called for a level of 4x4 blocks (16x16
\* pixels): byte lengths of the caller's output buffer and of the compressed
\* data, and the capacity in blocks or pixels the caller declares.
OutputLens == {0, 128}
CompressedLens == {0, 60}
DeclaredCapacities == {16, 17}

-----------------------------------------------------------------------------
(* The format metadata table of the transcoder library                      *)
(* (basisu_transcoder.cpp), which the wrapper calls.                         *)

basis_transcoder_format_is_uncompressed(fmt) ==
    fmt \in {cTFRGBA32, cTFRGB565, cTFBGR565, cTFRGBA4444}

basis_get_uncompressed_bytes_per_pixel(fmt) ==
    IF fmt = cTFRGBA32 THEN 4
    ELSE IF fmt \in {cTFRGB565, cTFBGR565, cTFRGBA4444} THEN 2
    ELSE 0

\* 8 bytes: ETC1, BC1, BC4, PVRTC1 (both), ATC RGB, FXT1, PVRTC2 (both),
\* EAC R11; 16 bytes: ETC2 RGBA, BC3, BC5, BC7 (both), ASTC, ATC RGBA, EAC RG11.
basis_get_bytes_per_block_or_pixel(fmt) ==
    IF fmt \in {0, 2, 4, cTFPVRTC1_4_RGB, cTFPVRTC1_4_RGBA, 11, 17, 18, 19, 20} THEN 8
    ELSE IF fmt \in {1, 3, 5, 6, 7, 10, 12, 21} THEN 16
    ELSE basis_get_uncompressed_bytes_per_pixel(fmt)

-----------------------------------------------------------------------------
(* Container bytes.  A buffer is described by what the library's parser      *)
(* finds in it: whether its header validates, and the slice table.           *)

Level(w, h, nbx, nby, ofs, len) ==
    [orig_width |-> U32(w), orig_height |-> U32(h),
     num_blocks_x |-> U32(nbx), num_blocks_y |-> U32(nby),
     rgb_file_ofs |-> U32(ofs), rgb_file_len |-> U32(len),
     alpha_file_ofs |-> Zero32, alpha_file_len |-> Zero32]

Image(levels, alpha, iframe) ==
    [levels |-> levels, alpha_flag |-> alpha, iframe_flag |-> iframe]

Buffer(size, ok, uastc, images) ==
    [size |-> size, headerOk |-> ok, uastc |-> uastc, images |-> images]

\* One image, one level, 16x16 pixels in 4x4 blocks, ETC1S.
FileSmall == Buffer(200, TRUE, FALSE,
    << Image(<< Level(16, 16, 4, 4, 100, 60) >>, FALSE, TRUE) >>)

\* Two images; the first with two mip levels, odd sizes.
FileMips == Buffer(300, TRUE, FALSE,
    << Image(<< Level(7, 9, 2, 3, 100, 50), Level(4, 4, 1, 1, 150, 10) >>, TRUE, TRUE),
       Image(<< Level(1, 1, 1, 1, 160, 10) >>, TRUE, FALSE) >>)

\* A UASTC container.
FileUastc == Buffer(120, TRUE, TRUE,
    << Image(<< Level(8, 8, 2, 2, 80, 64) >>, FALSE, TRUE) >>)

\* Large levels: dimensions and block counts that fit the container's 16-bit
\* fields but whose byte sizes do not fit 32 bits.
FileHuge == Buffer(400, TRUE, FALSE,
    << Image(<< Level(32767, 32768, 8192, 8192, 100, 100),
                Level(32768, 32768, 8192, 8192, 200, 100) >>, FALSE, TRUE),
       Image(<< Level(65535, 65535, 16384, 16384, 300, 100) >>, FALSE, TRUE) >>)

\* Bytes whose header does not validate.
FileBad == Buffer(64, FALSE, FALSE, << >>)

\* A zero-length buffer.
FileEmpty == Buffer(0, FALSE, FALSE, << >>)

JsBuffers == {FileSmall, FileMips, FileUastc, FileHuge, FileBad, FileEmpty}

\* std::vector<uint8_t>(byteLength): that many zero bytes.
ZeroBytes(n) == Buffer(n, FALSE, FALSE, << >>)

\* The vector after clear().
EmptyVec == ZeroBytes(0)

-----------------------------------------------------------------------------
(* The container index of the transcoder library (basisu_transcoder), as    *)
(* the wrapper uses it: every call is handed (m_file.data(), m_file.size()). *)

\* The library parses a buffer only if its header checks out.
Parseable(buf) == buf.size > 0 /\ buf.headerOk

validate_header(buf) == Parseable(buf)

get_total_images(buf) == IF Parseable(buf) THEN Len(buf.images) ELSE 0

HasImage(buf, image_index) == Parseable(buf) /\ image_index < Len(buf.images)

HasLevel(buf, image_index, level_index) ==
    /\ HasImage(buf, image_index)
    /\ level_index < Len(buf.images[image_index + 1].levels)

LevelOf(buf, image_index, level_index) ==
    buf.images[image_index + 1].levels[level_index + 1]

\* get_image_level_desc: orig_width, orig_height, total_blocks of a level.
get_image_level_desc(buf, image_index, level_index) ==
    IF HasLevel(buf, image_index, level_index)
    THEN LET lv == LevelOf(buf, image_index, level_index)
         IN  [ok |-> TRUE, orig_width |-> lv.orig_width, orig_height |-> lv.orig_height,
              total_blocks |-> Mul32(lv.num_blocks_x, lv.num_blocks_y)]
    ELSE [ok |-> FALSE, orig_width |-> Zero32, orig_height |-> Zero32,
          total_blocks |-> Zero32]

\* get_image_level_info: adds the alpha flag and the slice byte ranges.
get_image_level_info(buf, image_index, level_index) ==
    IF HasLevel(buf, image_index, level_index)
    THEN LET lv == LevelOf(buf, image_index, level_index)
         IN  [ok |-> TRUE, m_alpha_flag |-> buf.images[image_index + 1].alpha_flag,
              m_rgb_file_ofs |-> lv.rgb_file_ofs, m_rgb_file_len |-> lv.rgb_file_len,
              m_alpha_file_ofs |-> lv.alpha_file_ofs,
              m_alpha_file_len |-> lv.alpha_file_len]
    ELSE [ok |-> FALSE, m_alpha_flag |-> FALSE,
          m_rgb_file_ofs |-> Zero32, m_rgb_file_len |-> Zero32,
          m_alpha_file_ofs |-> Zero32, m_alpha_file_len |-> Zero32]

\* get_image_info: the image's first level and its level count.
get_image_info(buf, image_index) ==
    IF HasImage(buf, image_index)
    THEN LET im == buf.images[image_index + 1]
             lv == im.levels[1]
         IN  [ok |-> TRUE, m_orig_width |-> lv.orig_width,
              m_orig_height |-> lv.orig_height,
              m_num_blocks_x |-> lv.num_blocks_x, m_num_blocks_y |-> lv.num_blocks_y,
              m_total_levels |-> U32(Len(im.levels)),
              m_alpha_flag |-> im.alpha_flag, m_iframe_flag |-> im.iframe_flag]
    ELSE [ok |-> FALSE, m_orig_width |-> Zero32, m_orig_height |-> Zero32,
          m_num_blocks_x |-> Zero32, m_num_blocks_y |-> Zero32,
          m_total_levels |-> Zero32, m_alpha_flag |-> FALSE, m_iframe_flag |-> FALSE]

\* get_file_info: the header's fields and the ETC1S codebook ranges.
get_file_info(buf) ==
    IF Parseable(buf)
    THEN [ok |-> TRUE, m_version |-> U32(19), m_us_per_frame |-> Zero32,
          m_total_images |-> U32(Len(buf.images)),
          m_userdata0 |-> U32(buf.size), m_userdata1 |-> Zero32,
          m_tex_format |-> U32(IF buf.uastc THEN 1 ELSE 0),
          m_y_flipped |-> FALSE,
          m_has_alpha_slices |-> \E k \in 1..Len(buf.images) : buf.images[k].alpha_flag,
          m_total_endpoints |-> U32(IF buf.uastc THEN 0 ELSE 16),
          m_endpoint_codebook_ofs |-> U32(IF buf.uastc THEN 0 ELSE 40),
          m_endpoint_codebook_size |-> U32(IF buf.uastc THEN 0 ELSE 20),
          m_total_selectors |-> U32(IF buf.uastc THEN 0 ELSE 16),
          m_selector_codebook_ofs |-> U32(IF buf.uastc THEN 0 ELSE 60),
          m_selector_codebook_size |-> U32(IF buf.uastc THEN 0 ELSE 20),
          m_tables_ofs |-> U32(IF buf.uastc THEN 0 ELSE 80),
          m_tables_size |-> U32(IF buf.uastc THEN 0 ELSE 20)]
    ELSE [ok |-> FALSE]

\* get_tex_format(...) == basis_tex_format::cUASTC4x4
IsUastcFormat(buf) == Parseable(buf) /\ buf.uastc

-----------------------------------------------------------------------------
VARIABLES
    NDEBUG,             \* the build: TRUE when assert() is compiled out
    aborted,            \* an assert() failed: the process is gone
    g_pGlobal_codebook, \* TRUE when the global codebook pointer is non-null
    initAgain,          \* history: basis_init() has been called with the codebook in place
    initRuns,           \* how often the one-time initialisation has run
    pc,                 \* where each concurrent caller of basis_init() stands
    constructed,        \* the basis_file object exists
    m_magic,            \* basis_file::m_magic
    m_file,             \* basis_file::m_file
    m_ready,            \* m_transcoder: start_transcoding() has succeeded
    validationFailed,   \* history: validate_header() failed in the constructor
    closed,             \* history: close() has been called
    reclosed,           \* history: close() has been called again after that
    session,            \* the lowlevel_etc1s_image_transcoder object
    last                \* the last call made by the caller and its outcome

buildVars == <<NDEBUG, g_pGlobal_codebook, initRuns, initAgain, pc>>
globVars == <<buildVars, aborted>>
fileVars == <<constructed, m_magic, m_file, m_ready, validationFailed, closed, reclosed>>
vars == <<globVars, fileVars, session, last>>

-----------------------------------------------------------------------------
(* What the caller sees of a call.                                           *)

NoAlloc == [done |-> FALSE, size |-> Zero32]
NoCodec == [called |-> FALSE, format |-> 0, capacity |-> Zero32, buf_len |-> Zero32]

\* A call that has not yet returned: no buffer allocated, codec not invoked,
\* the destination untouched.
Call(op, image_index, level_index, format, dst_cap) ==
    [op |-> op, image_index |-> image_index, level_index |-> level_index,
     format |-> format, dst_cap |-> dst_cap,
     outcome |-> "returned", ret |-> "void",
     alloc |-> NoAlloc, codec |-> NoCodec, dst_written |-> FALSE,
     args |-> <<>>]

Return(c, r) == [c EXCEPT !.ret = r]

\* assert(0) and the statements after it: the process aborts where assert()
\* is compiled in, and the handler goes on to return r where it is not.
AssertFailed(c, r) ==
    IF NDEBUG THEN Return(c, r) ELSE [c EXCEPT !.outcome = "aborted"]

\* The handler's preamble: assert(m_magic == MAGIC); if (m_magic != MAGIC) return r;
\* then the rest of the handler.
MagicChecked(c, r, rest) ==
    IF m_magic # MAGIC THEN AssertFailed(c, r) ELSE rest

\* A handler is a function from the state and the arguments to the outcome
\* of the call; the action that runs it records the outcome.
Ran(c) ==
    /\ last' = c
    /\ aborted' = (c.outcome \in {"aborted", "crashed"})

\* The caller is between two calls.
Idle == ~aborted /\ last.op = "none"

\* The session object: the codebook pointer its base class captured, what
\* the library has decoded into it, and m_state, the previous-frame state,
\* here the number of video frames decoded into it.
NoSession ==
    [exists |-> FALSE, codebook |-> FALSE, palettes |-> FALSE, tables |-> FALSE,
     m_state |-> 0]

-----------------------------------------------------------------------------
Init ==
    /\ NDEBUG \in BOOLEAN
    /\ aborted = FALSE
    /\ g_pGlobal_codebook = FALSE
    /\ initRuns = 0
    /\ initAgain = FALSE
    /\ pc = [t \in Callers |-> "idle"]
    /\ constructed = FALSE
    /\ m_magic = Zero32
    /\ m_file = EmptyVec
    /\ m_ready = FALSE
    /\ validationFailed = FALSE
    /\ closed = FALSE
    /\ reclosed = FALSE
    /\ session = NoSession
    /\ last = Call("none", 0, 0, 0, 0)

\* A faulty basis_init() that never looks at the pointer.
CodebookExists_Unchecked == FALSE

\* if (g_pGlobal_codebook) return;
CodebookExists == g_pGlobal_codebook

\* basis_init(): returns at once when the codebook exists; otherwise runs
\* basisu_transcoder_init() and allocates the codebook.
BasisInit ==
    /\ Idle
    /\ IF CodebookExists
       THEN UNCHANGED <<g_pGlobal_codebook, initRuns>>
       ELSE /\ initRuns' = initRuns + 1
            /\ g_pGlobal_codebook' = TRUE
    /\ initAgain' = (initAgain \/ g_pGlobal_codebook)
    /\ Ran(Call("basis_init", 0, 0, 0, 0))
    /\ UNCHANGED <<NDEBUG, pc, fileVars, session>>

\* basis_init() run by several callers at once, statement by statement; the
\* function takes no lock.  Caller t tests the pointer:
\* if (g_pGlobal_codebook) return;
InitTest(t) ==
    /\ pc[t] = "idle"
    /\ pc' = [pc EXCEPT ![t] = IF g_pGlobal_codebook THEN "idle"
                               ELSE "basisu_transcoder_init"]
    /\ initAgain' = (initAgain \/ g_pGlobal_codebook)
    /\ UNCHANGED <<NDEBUG, g_pGlobal_codebook, initRuns, aborted, fileVars, session, last>>

\* basisu_transcoder_init();
InitTranscoder(t) ==
    /\ pc[t] = "basisu_transcoder_init"
    /\ pc' = [pc EXCEPT ![t] = "new"]
    /\ UNCHANGED <<NDEBUG, g_pGlobal_codebook, initRuns, initAgain, aborted, fileVars,
                   session, last>>

\* g_pGlobal_codebook = new basist::etc1_global_selector_codebook(...);
InitCodebook(t) ==
    /\ pc[t] = "new"
    /\ initRuns' = initRuns + 1
    /\ g_pGlobal_codebook' = TRUE
    /\ pc' = [pc EXCEPT ![t] = "idle"]
    /\ UNCHANGED <<NDEBUG, initAgain, aborted, fileVars, session, last>>

\* basis_file::basis_file(jsBuffer)
Construct(jsBuffer) ==
    /\ Idle
    /\ ~constructed
    /\ LET c == Call("basis_file", 0, 0, 0, 0) IN
       IF ~g_pGlobal_codebook
       THEN \* assert(0); return;  m_file holds byteLength zero bytes, m_magic is 0
            /\ Ran(AssertFailed(c, "void"))
            /\ IF NDEBUG
               THEN constructed' = TRUE /\ m_file' = ZeroBytes(jsBuffer.size)
               ELSE UNCHANGED <<constructed, m_file>>
            /\ UNCHANGED <<m_magic, validationFailed>>
       ELSE /\ Ran(c)
            /\ constructed' = TRUE
            /\ m_file' = IF validate_header(jsBuffer) THEN jsBuffer ELSE EmptyVec
            /\ validationFailed' = ~validate_header(jsBuffer)
            /\ m_magic' = MAGIC
    /\ UNCHANGED <<buildVars, m_ready, closed, reclosed, session>>

\* A faulty close() that leaves the bytes in place.
ClearedFile_Kept == m_file

\* m_file.clear() in close()
ClearedFile == EmptyVec

\* basis_file::close()
close_call ==
    LET c == Call("close", 0, 0, 0, 0) IN
    IF m_magic # MAGIC /\ ~NDEBUG THEN [c EXCEPT !.outcome = "aborted"] ELSE c

Close ==
    /\ Idle
    /\ constructed
    /\ Ran(close_call)
    /\ IF close_call.outcome = "aborted"
       THEN UNCHANGED <<m_file, closed, reclosed>>
       ELSE /\ m_file' = ClearedFile
            /\ closed' = TRUE
            /\ reclosed' = closed
    /\ UNCHANGED <<buildVars, constructed, m_magic, m_ready, validationFailed, session>>

-----------------------------------------------------------------------------
(* The queries of basis_file.                                                *)

getHasAlpha_call ==
    LET c == Call("getHasAlpha", 0, 0, 0, 0)
        li == get_image_level_info(m_file, 0, 0)
    IN  MagicChecked(c, Zero32,
            IF ~li.ok THEN Return(c, Zero32)
            ELSE Return(c, U32(IF li.m_alpha_flag THEN 1 ELSE 0)))

getNumImages_call ==
    LET c == Call("getNumImages", 0, 0, 0, 0)
    IN  MagicChecked(c, Zero32, Return(c, U32(get_total_images(m_file))))

getNumLevels_call(image_index) ==
    LET c == Call("getNumLevels", image_index, 0, 0, 0)
        ii == get_image_info(m_file, image_index)
    IN  MagicChecked(c, Zero32,
            IF ~ii.ok THEN Return(c, Zero32) ELSE Return(c, ii.m_total_levels))

getImageWidth_call(image_index, level_index) ==
    LET c == Call("getImageWidth", image_index, level_index, 0, 0)
        d == get_image_level_desc(m_file, image_index, level_index)
    IN  MagicChecked(c, Zero32,
            IF ~d.ok THEN Return(c, Zero32) ELSE Return(c, d.orig_width))

getImageHeight_call(image_index, level_index) ==
    LET c == Call("getImageHeight", image_index, level_index, 0, 0)
        d == get_image_level_desc(m_file, image_index, level_index)
    IN  MagicChecked(c, Zero32,
            IF ~d.ok THEN Return(c, Zero32) ELSE Return(c, d.orig_height))

\* memset(&result, 0, sizeof(result)) of a basis_file_desc
ZeroFileDesc ==
    [m_version |-> Zero32, m_us_per_frame |-> Zero32, m_total_images |-> Zero32,
     m_userdata0 |-> Zero32, m_userdata1 |-> Zero32, m_tex_format |-> Zero32,
     m_y_flipped |-> FALSE, m_has_alpha_slices |-> FALSE,
     m_num_endpoints |-> Zero32, m_endpoint_palette_ofs |-> Zero32,
     m_endpoint_palette_len |-> Zero32,
     m_num_selectors |-> Zero32, m_selector_palette_ofs |-> Zero32,
     m_selector_palette_len |-> Zero32,
     m_tables_ofs |-> Zero32, m_tables_len |-> Zero32]

getFileDesc_call ==
    LET c == Call("getFileDesc", 0, 0, 0, 0)
        file_info == get_file_info(m_file)
    IN  MagicChecked(c, ZeroFileDesc,
            IF ~file_info.ok THEN AssertFailed(c, ZeroFileDesc)
            ELSE Return(c,
                [m_version |-> file_info.m_version,
                 m_us_per_frame |-> file_info.m_us_per_frame,
                 m_total_images |-> file_info.m_total_images,
                 m_userdata0 |-> file_info.m_userdata0,
                 m_userdata1 |-> file_info.m_userdata1,
                 m_tex_format |-> file_info.m_tex_format,
                 m_y_flipped |-> file_info.m_y_flipped,
                 m_has_alpha_slices |-> file_info.m_has_alpha_slices,
                 m_num_endpoints |-> file_info.m_total_endpoints,
                 m_endpoint_palette_ofs |-> file_info.m_endpoint_codebook_ofs,
                 m_endpoint_palette_len |-> file_info.m_endpoint_codebook_size,
                 m_num_selectors |-> file_info.m_total_selectors,
                 m_selector_palette_ofs |-> file_info.m_selector_codebook_ofs,
                 m_selector_palette_len |-> file_info.m_selector_codebook_size,
                 m_tables_ofs |-> file_info.m_tables_ofs,
                 m_tables_len |-> file_info.m_tables_size]))

\* memset(&result, 0, sizeof(result)) of a basis_image_desc
ZeroImageDesc ==
    [m_orig_width |-> Zero32, m_orig_height |-> Zero32,
     m_num_blocks_x |-> Zero32, m_num_blocks_y |-> Zero32, m_num_levels |-> Zero32,
     m_alpha_flag |-> FALSE, m_iframe_flag |-> FALSE]

getImageDesc_call(image_index) ==
    LET c == Call("getImageDesc", image_index, 0, 0, 0)
        image_info == get_image_info(m_file, image_index)
    IN  MagicChecked(c, ZeroImageDesc,
            IF ~image_info.ok THEN AssertFailed(c, ZeroImageDesc)
            ELSE Return(c,
                [m_orig_width |-> image_info.m_orig_width,
                 m_orig_height |-> image_info.m_orig_height,
                 m_num_blocks_x |-> image_info.m_num_blocks_x,
                 m_num_blocks_y |-> image_info.m_num_blocks_y,
                 m_num_levels |-> image_info.m_total_levels,
                 m_alpha_flag |-> image_info.m_alpha_flag,
                 m_iframe_flag |-> image_info.m_iframe_flag]))

\* memset(&result, 0, sizeof(result)) of a basis_image_level_desc
ZeroImageLevelDesc ==
    [m_rgb_file_ofs |-> Zero32, m_rgb_file_len |-> Zero32,
     m_alpha_file_ofs |-> Zero32, m_alpha_file_len |-> Zero32]

getImageLevelDesc_call(image_index, level_index) ==
    LET c == Call("getImageLevelDesc", image_index, level_index, 0, 0)
        image_info == get_image_level_info(m_file, image_index, level_index)
    IN  MagicChecked(c, ZeroImageLevelDesc,
            IF ~image_info.ok THEN AssertFailed(c, ZeroImageLevelDesc)
            ELSE Return(c,
                [m_rgb_file_ofs |-> image_info.m_rgb_file_ofs,
                 m_rgb_file_len |-> image_info.m_rgb_file_len,
                 m_alpha_file_ofs |-> image_info.m_alpha_file_ofs,
                 m_alpha_file_len |-> image_info.m_alpha_file_len]))

isUASTC_call ==
    LET c == Call("isUASTC", 0, 0, 0, 0)
    IN  MagicChecked(c, FALSE, Return(c, IsUastcFormat(m_file)))


\* A faulty size that drops the bytes_per_block factor.
SizeOfBlocks_Unscaled(total_blocks, bytes_per_block) == total_blocks

\* return total_blocks * bytes_per_block;
SizeOfBlocks(total_blocks, bytes_per_block) == Mul32(total_blocks, U32(bytes_per_block))

\* basis_file::getImageTranscodedSizeInBytes(image_index, level_index, format)
getImageTranscodedSizeInBytes_call(image_index, level_index, format) ==
    LET c == Call("getImageTranscodedSizeInBytes", image_index, level_index, format, 0)
        d == get_image_level_desc(m_file, image_index, level_index)
        bytes_per_pixel == basis_get_uncompressed_bytes_per_pixel(format)
        bytes_per_line == Mul32(d.orig_width, U32(bytes_per_pixel))
        bytes_per_slice == Mul32(bytes_per_line, d.orig_height)
        bytes_per_block == basis_get_bytes_per_block_or_pixel(format)
        width == AndNot3(Add32(d.orig_width, U32(3)))
        height == AndNot3(Add32(d.orig_height, U32(3)))
        size_in_bytes ==
            Div32(Add32(Mul32(Mul32(Max32(U32(8), width), Max32(U32(8), height)),
                              U32(4)), U32(7)), 8)
    IN  MagicChecked(c, Zero32,
            IF format >= cTFTotalTextureFormats THEN Return(c, Zero32)
            ELSE IF ~d.ok THEN Return(c, Zero32)
            ELSE IF basis_transcoder_format_is_uncompressed(format)
                 THEN Return(c, bytes_per_slice)
            ELSE IF format = cTFPVRTC1_4_RGB \/ format = cTFPVRTC1_4_RGBA
                 THEN Return(c, size_in_bytes)
            ELSE Return(c, SizeOfBlocks(d.total_blocks, bytes_per_block)))

\* basisu_transcoder::start_transcoding: succeeds at once when the tables are
\* already decoded, fails on a buffer that does not parse, and otherwise
\* succeeds or fails with the payload (decoded).
start_transcoding(buf, decoded) == Parseable(buf) /\ (m_ready \/ decoded)

startTranscoding_call(decoded) ==
    LET c == Call("startTranscoding", 0, 0, 0, 0)
    IN  MagicChecked(c, Zero32,
            Return(c, U32(IF start_transcoding(m_file, decoded) THEN 1 ELSE 0)))

\* basisu_transcoder::transcode_image_level, the codec: it refuses to run
\* before start_transcoding() and with a capacity below the level's block or
\* pixel count; otherwise it succeeds or fails with the payload (decoded).
transcode_image_level(buf, image_index, level_index, capacity, format, decoded) ==
    LET d == get_image_level_desc(buf, image_index, level_index)
        needed == IF basis_transcoder_format_is_uncompressed(format)
                  THEN Mul32(d.orig_width, d.orig_height)
                  ELSE d.total_blocks
    IN  /\ d.ok
        /\ m_ready
        /\ NumLe(needed, capacity)
        /\ decoded

\* What a write past the end of the buffer the codec was given does: nothing
\* the caller sees, or the end of the process.
Overruns == {"unnoticed", "crashed"}

\* TypedArray.prototype.set(source): throws a RangeError, before writing, when
\* the source is longer than the target.
SetThrows(dst_cap, src_len) == NumLt(U32(dst_cap), src_len)

\* basis_file::transcodeImage(dst, image_index, level_index, format, unused,
\* get_alpha_for_opaque_formats); decoded is the codec's verdict on the payload.
transcodeImage_call(image_index, level_index, format, dst_cap, decoded, overrun) ==
    LET c == Call("transcodeImage", image_index, level_index, format, dst_cap)
        d == get_image_level_desc(m_file, image_index, level_index)
        uncompressed == basis_transcoder_format_is_uncompressed(format)
        pvrtc1 == format = cTFPVRTC1_4_RGB \/ format = cTFPVRTC1_4_RGBA
        \* the uncompressed branch
        bytes_per_pixel == basis_get_uncompressed_bytes_per_pixel(format)
        bytes_per_line == Mul32(d.orig_width, U32(bytes_per_pixel))
        bytes_per_slice == Mul32(bytes_per_line, d.orig_height)
        \* the block branch
        bytes_per_block == basis_get_bytes_per_block_or_pixel(format)
        blocks_size == Mul32(d.total_blocks, U32(bytes_per_block))
        width == AndNot3(Add32(d.orig_width, U32(3)))
        height == AndNot3(Add32(d.orig_height, U32(3)))
        padded_size ==
            Div32(Add32(Mul32(Mul32(Max32(U32(8), width), Max32(U32(8), height)),
                              U32(4)), U32(7)), 8)
        required_size == IF pvrtc1 THEN padded_size ELSE blocks_size
        \* dst_data.resize(...) and the capacity handed to the codec
        dst_size == IF uncompressed THEN bytes_per_slice ELSE required_size
        capacity == IF uncompressed THEN Mul32(d.orig_width, d.orig_height)
                    ELSE Div32(required_size, bytes_per_block)
        status == transcode_image_level(m_file, image_index, level_index,
                                        capacity, format, decoded)
        \* the codec writes orig_width * orig_height pixels, whatever
        \* dst_data.size() has wrapped to
        overran == /\ uncompressed /\ status
                   /\ NumLt(dst_size, BigMul(BigMul(d.orig_width, d.orig_height),
                                              U32(bytes_per_pixel)))
        done == [c EXCEPT
                    !.alloc = [done |-> TRUE, size |-> dst_size],
                    !.codec = [called |-> TRUE, format |-> format,
                               capacity |-> capacity, buf_len |-> dst_size]]
    IN  MagicChecked(c, Zero32,
            IF format >= cTFTotalTextureFormats THEN Return(c, Zero32)
            ELSE IF ~d.ok THEN Return(c, Zero32)
            ELSE IF ~uncompressed /\ pvrtc1 /\ ~NDEBUG /\ NumLt(required_size, blocks_size)
                 THEN \* assert(required_size >= total_blocks * bytes_per_block)
                      [c EXCEPT !.outcome = "aborted"]
            ELSE IF overran /\ overrun = "crashed"
                 THEN [done EXCEPT !.outcome = "crashed"]
            ELSE IF SetThrows(dst_cap, dst_size)
                 THEN [done EXCEPT !.outcome = "threw"]
            ELSE [done EXCEPT !.ret = U32(IF status THEN 1 ELSE 0),
                              !.dst_written = dst_size # Zero32])

-----------------------------------------------------------------------------
(* lowlevel_etc1s_image_transcoder and the marshaling helper.                *)

\* The blocks or pixels of the level the low-level calls are given: 16 blocks,
\* 256 pixels.
UnitsNeeded(fmt) == IF basis_transcoder_format_is_uncompressed(fmt) THEN 256 ELSE 16

\* The bytes a successful codec call writes to the buffer it was given.
codec_bytes(fmt) == UnitsNeeded(fmt) * basis_get_bytes_per_block_or_pixel(fmt)

\* copy_to_jsbuffer(dstBuffer, srcVec): "empty" and "small" are its two
\* failures, "copied" its success.
copy_to_jsbuffer(dst_len, src_len) ==
    IF src_len = 0 THEN "empty"
    ELSE IF src_len > dst_len THEN "small"
    ELSE "copied"

\* basisu_lowlevel_etc1s_transcoder::transcode_image, the codec: it needs the
\* palettes and the tables, a known format and room for the 16 blocks (256
\* pixels) of the level; otherwise it succeeds or fails with the payload.
etc1s_transcode_image(target_format, capacity, decoded) ==
    /\ session.palettes /\ session.tables
    /\ target_format < cTFTotalTextureFormats
    /\ capacity >= UnitsNeeded(target_format)
    /\ decoded

\* A faulty session that hands the codec a fresh state on every call.
StateHanded_Fresh == NoSession.m_state

\* &m_state, the previous-frame state the codec is handed: the session's own
StateHanded == session.m_state

\* What the codec leaves in the state it was handed: a video frame it has
\* decoded becomes the previous frame.
etc1s_state_after(state, status, is_video) ==
    IF status /\ is_video THEN state + 1 ELSE state

\* lowlevel_etc1s_image_transcoder::transcode_image(target_format, output_blocks,
\* output_blocks_buf_size_in_blocks_or_pixels, compressed_data, ..., is_video, ...)
etc1s_transcode_image_call(target_format, output_len, capacity, compressed_len, is_video, decoded, overrun) ==
    LET c == [Call("etc1s.transcodeImage", 0, 0, target_format, output_len) EXCEPT
                 !.args = [compressed_len |-> compressed_len, capacity |-> capacity,
                           is_video |-> is_video,
                           state_in |-> StateHanded, state_out |-> StateHanded]]
        status == etc1s_transcode_image(target_format, capacity, decoded)
        ran == [c EXCEPT
                   !.alloc = [done |-> TRUE, size |-> U32(output_len)],
                   !.codec = [called |-> TRUE, format |-> target_format,
                              capacity |-> U32(capacity), buf_len |-> U32(output_len)],
                   !.args.state_out = etc1s_state_after(StateHanded, status, is_video)]
        copied == copy_to_jsbuffer(output_len, output_len)
    IN  IF ~g_pGlobal_codebook THEN AssertFailed(c, FALSE)
        ELSE IF compressed_len = 0 THEN AssertFailed(c, FALSE)
        ELSE IF output_len = 0 THEN AssertFailed(c, FALSE)
        ELSE IF ~status THEN AssertFailed(ran, FALSE)
        ELSE IF codec_bytes(target_format) > output_len /\ overrun = "crashed"
             THEN \* the codec has written past the end of temp_output_blocks
                  [ran EXCEPT !.outcome = "crashed"]
        ELSE IF copied = "small" THEN AssertFailed(ran, FALSE)
        ELSE IF copied = "empty" THEN Return(ran, FALSE)
        ELSE [ran EXCEPT !.ret = TRUE, !.dst_written = TRUE]

\* basisu_lowlevel_uastc_transcoder::transcode_image, the codec: it needs a
\* known format and room for the 16 blocks (256 pixels) of the level;
\* otherwise it succeeds or fails with the payload.  It is handed no state.
uastc_transcode_image(target_format, capacity, decoded) ==
    /\ target_format < cTFTotalTextureFormats
    /\ capacity >= UnitsNeeded(target_format)
    /\ decoded

\* transcode_uastc_image(target_format_int, output_blocks,
\* output_blocks_buf_size_in_blocks_or_pixels, compressed_data, ...)
transcode_uastc_image_call(target_format, output_len, capacity, compressed_len, decoded, overrun) ==
    LET c == [Call("transcodeUASTCImage", 0, 0, target_format, output_len) EXCEPT
                 !.args = [compressed_len |-> compressed_len, capacity |-> capacity,
                           decoded |-> decoded, pState |-> "nullptr"]]
        status == uastc_transcode_image(target_format, capacity, decoded)
        ran == [c EXCEPT
                   !.alloc = [done |-> TRUE, size |-> U32(output_len)],
                   !.codec = [called |-> TRUE, format |-> target_format,
                              capacity |-> U32(capacity), buf_len |-> U32(output_len)]]
        copied == copy_to_jsbuffer(output_len, output_len)
    IN  IF ~g_pGlobal_codebook THEN AssertFailed(c, FALSE)
        ELSE IF compressed_len = 0 THEN AssertFailed(c, FALSE)
        ELSE IF output_len = 0 THEN AssertFailed(c, FALSE)
        ELSE IF ~status THEN AssertFailed(ran, FALSE)
        ELSE IF codec_bytes(target_format) > output_len /\ overrun = "crashed"
             THEN \* the codec has written past the end of temp_output_blocks
                  [ran EXCEPT !.outcome = "crashed"]
        ELSE IF copied = "small" THEN AssertFailed(ran, FALSE)
        ELSE IF copied = "empty" THEN Return(ran, FALSE)
        ELSE [ran EXCEPT !.ret = TRUE, !.dst_written = TRUE]

-----------------------------------------------------------------------------
(* The actions: one per entry point of the bindings.  The queries change     *)
(* nothing but what the caller sees.                                         *)

\* A faulty query that drops the stored bytes.
QueryFrame_Clearing ==
    /\ m_file' = EmptyVec
    /\ UNCHANGED <<buildVars, constructed, m_magic, m_ready, validationFailed, closed,
                   reclosed, session>>

\* The queries read m_magic, m_file and m_transcoder and write no member.
QueryFrame == UNCHANGED <<buildVars, fileVars, session>>

GetHasAlpha ==
    /\ Idle /\ constructed
    /\ Ran(getHasAlpha_call)
    /\ QueryFrame

GetNumImages ==
    /\ Idle /\ constructed
    /\ Ran(getNumImages_call)
    /\ QueryFrame

GetNumLevels ==
    /\ Idle /\ constructed
    /\ \E i \in Indices : Ran(getNumLevels_call(i))
    /\ QueryFrame

GetImageWidth ==
    /\ Idle /\ constructed
    /\ \E i \in Indices, l \in Indices : Ran(getImageWidth_call(i, l))
    /\ QueryFrame

GetImageHeight ==
    /\ Idle /\ constructed
    /\ \E i \in Indices, l \in Indices : Ran(getImageHeight_call(i, l))
    /\ QueryFrame

GetFileDesc ==
    /\ Idle /\ constructed
    /\ Ran(getFileDesc_call)
    /\ QueryFrame

GetImageDesc ==
    /\ Idle /\ constructed
    /\ \E i \in Indices : Ran(getImageDesc_call(i))
    /\ QueryFrame

GetImageLevelDesc ==
    /\ Idle /\ constructed
    /\ \E i \in Indices, l \in Indices : Ran(getImageLevelDesc_call(i, l))
    /\ QueryFrame

IsUASTC ==
    /\ Idle /\ constructed
    /\ Ran(isUASTC_call)
    /\ QueryFrame

GetImageTranscodedSizeInBytes ==
    /\ Idle /\ constructed
    /\ \E i \in Indices, l \in Indices, f \in Formats :
           Ran(getImageTranscodedSizeInBytes_call(i, l, f))
    /\ QueryFrame

StartTranscoding ==
    /\ Idle /\ constructed
    /\ \E decoded \in BOOLEAN :
           /\ Ran(startTranscoding_call(decoded))
           /\ m_ready' = (m_ready \/ (m_magic = MAGIC /\ start_transcoding(m_file, decoded)))
    /\ UNCHANGED <<buildVars, constructed, m_magic, m_file, validationFailed, closed,
                   reclosed, session>>

TranscodeImage ==
    /\ Idle /\ constructed
    /\ \E i \in Indices, l \in Indices, f \in Formats, cap \in DstCaps, decoded \in BOOLEAN,
          overrun \in Overruns :
           Ran(transcodeImage_call(i, l, f, cap, decoded, overrun))
    /\ UNCHANGED <<buildVars, fileVars, session>>

\* lowlevel_etc1s_image_transcoder(): the base class keeps g_pGlobal_codebook
\* as it is at this moment.
NewSession ==
    /\ Idle
    /\ ~session.exists
    /\ session' = [NoSession EXCEPT !.exists = TRUE, !.codebook = g_pGlobal_codebook]
    /\ Ran(Call("etc1s", 0, 0, 0, 0))
    /\ UNCHANGED <<buildVars, fileVars>>

\* decode_palettes(num_endpoints, endpoint_data, num_selectors, selector_data):
\* decoded is the library's verdict on the bytes.
DecodePalettes ==
    /\ Idle /\ session.exists
    /\ \E endpoint_len \in CompressedLens, selector_len \in CompressedLens,
          decoded \in BOOLEAN :
           LET c == [Call("etc1s.decodePalettes", 0, 0, 0, 0) EXCEPT
                        !.args = [endpoint_len |-> endpoint_len,
                                  selector_len |-> selector_len]]
           IN
           IF endpoint_len = 0 \/ selector_len = 0
           THEN /\ Ran(AssertFailed(c, FALSE))
                /\ UNCHANGED session
           ELSE /\ Ran([c EXCEPT !.ret = decoded, !.codec.called = TRUE])
                /\ session' = [session EXCEPT !.palettes = decoded]
    /\ UNCHANGED <<buildVars, fileVars>>

\* decode_tables(table_data)
DecodeTables ==
    /\ Idle /\ session.exists
    /\ \E table_len \in CompressedLens, decoded \in BOOLEAN :
           LET c == [Call("etc1s.decodeTables", 0, 0, 0, 0) EXCEPT
                        !.args = [table_len |-> table_len]]
           IN
           IF table_len = 0
           THEN /\ Ran(AssertFailed(c, FALSE))
                /\ UNCHANGED session
           ELSE /\ Ran([c EXCEPT !.ret = decoded, !.codec.called = TRUE])
                /\ session' = [session EXCEPT !.tables = decoded]
    /\ UNCHANGED <<buildVars, fileVars>>

\* transcode_image(...): the codec is handed &m_state, and a video frame it
\* decodes becomes the previous frame of the next call.
SessionTranscodeImage ==
    /\ Idle /\ session.exists
    /\ \E f \in Formats, output_len \in OutputLens, capacity \in DeclaredCapacities,
          compressed_len \in CompressedLens, is_video \in BOOLEAN, decoded \in BOOLEAN,
          overrun \in Overruns :
           LET c == etc1s_transcode_image_call(f, output_len, capacity, compressed_len,
                                               is_video, decoded, overrun)
           IN  /\ c.args.state_out <= MaxFrames
               /\ Ran(c)
               /\ session' = [session EXCEPT
                                 !.m_state = IF c.codec.called THEN c.args.state_out
                                             ELSE @]
    /\ UNCHANGED <<buildVars, fileVars>>

\* transcodeUASTCImage(...): a free function, it keeps nothing.
TranscodeUASTCImage ==
    /\ Idle
    /\ \E f \in Formats, output_len \in OutputLens, capacity \in DeclaredCapacities,
          compressed_len \in CompressedLens, decoded \in BOOLEAN, overrun \in Overruns :
           Ran(transcode_uastc_image_call(f, output_len, capacity, compressed_len,
                                          decoded, overrun))
    /\ UNCHANGED <<buildVars, fileVars, session>>

\* The caller takes the outcome of the call and goes on.
Resume ==
    /\ ~aborted
    /\ last.op # "none"
    /\ last' = Call("none", 0, 0, 0, 0)
    /\ UNCHANGED <<globVars, fileVars, session>>

\* The container and the calls on it.
FileNext ==
    \/ BasisInit
    \/ \E jsBuffer \in JsBuffers : Construct(jsBuffer)
    \/ Close
    \/ GetHasAlpha
    \/ GetNumImages
    \/ GetNumLevels
    \/ GetImageWidth
    \/ GetImageHeight
    \/ GetFileDesc
    \/ GetImageDesc
    \/ GetImageLevelDesc
    \/ GetImageTranscodedSizeInBytes
    \/ IsUASTC
    \/ StartTranscoding
    \/ TranscodeImage
    \/ Resume

\* The low-level ETC1S session and the calls on it, and the UASTC call.
SessionNext ==
    \/ BasisInit
    \/ NewSession
    \/ DecodePalettes
    \/ DecodeTables
    \/ SessionTranscodeImage
    \/ TranscodeUASTCImage
    \/ Resume

\* A container and a session share nothing but the global codebook, so the
\* claims about either are checked with the other left out.
Spec == Init /\ [][FileNext]_vars

\* Several callers in basis_init() at once.
InitNext ==
    \/ \E t \in Callers : InitTest(t)
    \/ \E t \in Callers : InitTranscoder(t)
    \/ \E t \in Callers : InitCodebook(t)

InitSpec == Init /\ [][InitNext]_vars

SessionSpec == Init /\ [][SessionNext]_vars

-----------------------------------------------------------------------------
(* Vocabulary of the claims.                                                 *)

Uint32Ops ==
    {"getHasAlpha", "getNumImages", "getNumLevels", "getImageWidth", "getImageHeight",
     "getImageTranscodedSizeInBytes", "startTranscoding", "transcodeImage"}

QueryOps == Uint32Ops \cup {"getFileDesc", "getImageDesc", "getImageLevelDesc", "isUASTC"}

\* The call returned, and what it returned is the neutral result of its type.
ReturnedNeutral(c) ==
    /\ c.outcome = "returned"
    /\ \/ c.op \in Uint32Ops /\ c.ret = Zero32
       \/ c.op = "getFileDesc" /\ c.ret = ZeroFileDesc
       \/ c.op = "getImageDesc" /\ c.ret = ZeroImageDesc
       \/ c.op = "getImageLevelDesc" /\ c.ret = ZeroImageLevelDesc
       \/ c.op = "isUASTC" /\ c.ret = FALSE

\* The container is live: constructed, validated and not cleared.
Valid == constructed /\ m_magic = MAGIC /\ Parseable(m_file)

\* The geometry of the level the last call names.
QLevel == get_image_level_desc(m_file, last.image_index, last.level_index)

\* The last call asks for a level the container has, in a format in range.
OnLevel == Valid /\ QLevel.ok /\ last.format < cTFTotalTextureFormats

\* The size query has answered for such a level.
SizeAnswered ==
    OnLevel /\ last.op = "getImageTranscodedSizeInBytes" /\ last.outcome = "returned"

\* transcodeImage has allocated its destination for such a level.
DstAllocated == OnLevel /\ last.op = "transcodeImage" /\ last.alloc.done

IsPvrtc1(fmt) == fmt = cTFPVRTC1_4_RGB \/ fmt = cTFPVRTC1_4_RGBA

\* The sizes of the specification, in unbounded arithmetic.
ExactRasterSize(w, h, fmt) ==
    BigMul(BigMul(w, h), U32(basis_get_uncompressed_bytes_per_pixel(fmt)))

ExactRoundUp4(x) == AndNot3(BigAdd(x, U32(3)))

\* ceil(max(8, w') * max(8, h') * 4 / 8)
ExactPvrtcSize(w, h) ==
    BigDiv(BigAdd(BigMul(BigMul(Max32(U32(8), ExactRoundUp4(w)),
                                Max32(U32(8), ExactRoundUp4(h))), U32(4)),
                  U32(7)), 8)

ExactBlocksSize(total_blocks, fmt) ==
    BigMul(total_blocks, U32(basis_get_bytes_per_block_or_pixel(fmt)))

-----------------------------------------------------------------------------
(* C1: for every uncompressed format and every level geometry, the size the  *)
(* size query returns and the size transcodeImage allocates is exactly       *)
(* origWidth * origHeight * bytesPerPixel(format).  The code multiplies in   *)
(* uint32_t, so the claim fails where the product does not fit 32 bits.      *)
C1_RasterSizeIsExact ==
    /\ (SizeAnswered /\ basis_transcoder_format_is_uncompressed(last.format))
          => NumEq(last.ret,
                   ExactRasterSize(QLevel.orig_width, QLevel.orig_height, last.format))
    /\ (DstAllocated /\ basis_transcoder_format_is_uncompressed(last.format))
          => NumEq(last.alloc.size,
                   ExactRasterSize(QLevel.orig_width, QLevel.orig_height, last.format))

(* C2: for both PVRTC1 4x4 formats the required size is                      *)
(* ceil(max(8,w') * max(8,h') * 4 / 8), w' and h' the dimensions rounded up  *)
(* to multiples of 4, whatever totalBlocks is.  The code computes it in      *)
(* uint32_t, so the claim fails where the product does not fit 32 bits.      *)
C2_PvrtcSizeIsPadded ==
    /\ (SizeAnswered /\ IsPvrtc1(last.format))
          => NumEq(last.ret, ExactPvrtcSize(QLevel.orig_width, QLevel.orig_height))
    /\ (DstAllocated /\ IsPvrtc1(last.format))
          => NumEq(last.alloc.size, ExactPvrtcSize(QLevel.orig_width, QLevel.orig_height))

(* C3: for every block format other than PVRTC1 4x4 the required size is     *)
(* exactly totalBlocks * bytesPerBlockOrPixel(format).  The code multiplies  *)
(* in uint32_t, so the claim fails where the product does not fit 32 bits.   *)
C3_BlockSizeIsExact ==
    LET block == /\ ~basis_transcoder_format_is_uncompressed(last.format)
                 /\ ~IsPvrtc1(last.format)
    IN  /\ (SizeAnswered /\ block)
              => NumEq(last.ret, ExactBlocksSize(QLevel.total_blocks, last.format))
        /\ (DstAllocated /\ block)
              => NumEq(last.alloc.size, ExactBlocksSize(QLevel.total_blocks, last.format))

(* C4: a call given a format >= cTFTotalTextureFormats fails before any      *)
(* destination buffer is allocated and before the codec is invoked, in the   *)
(* size query and in the transcode entry points.  The ETC1S session's        *)
(* transcode_image never looks at the format: it allocates and calls the     *)
(* codec.                                                                    *)
C4_UnsupportedFormatFailsFirst ==
    (/\ last.op \in {"getImageTranscodedSizeInBytes", "transcodeImage",
                     "etc1s.transcodeImage"}
     /\ last.format >= cTFTotalTextureFormats)
        => /\ ~last.alloc.done
           /\ ~last.codec.called
           /\ ~last.dst_written
           /\ last.outcome = "returned"
                 => IF last.op = "etc1s.transcodeImage" THEN last.ret = FALSE
                    ELSE last.ret = Zero32

\* The container of the scenario: one image, one level, 4x4 blocks, 16x16 pixels.
ScenarioContainer ==
    /\ Valid
    /\ get_total_images(m_file) = 1
    /\ get_image_info(m_file, 0).m_total_levels = U32(1)
    /\ get_image_info(m_file, 0).m_num_blocks_x = U32(4)
    /\ get_image_info(m_file, 0).m_num_blocks_y = U32(4)
    /\ get_image_level_desc(m_file, 0, 0).orig_width = U32(16)
    /\ get_image_level_desc(m_file, 0, 0).orig_height = U32(16)

\* The last call is on that level, to a block format of 8 bytes per block.
ScenarioCall ==
    /\ ScenarioContainer
    /\ last.image_index = 0 /\ last.level_index = 0
    /\ last.format < cTFTotalTextureFormats
    /\ ~basis_transcoder_format_is_uncompressed(last.format)
    /\ basis_get_bytes_per_block_or_pixel(last.format) = 8

(* C5 as claimed: in the scenario the size query returns 32, transcodeImage  *)
(* into 31 bytes fails, and into 32 bytes it succeeds and returns 32.        *)
C5_Scenario32 ==
    ScenarioCall =>
        /\ last.op = "getImageTranscodedSizeInBytes"
              => last.outcome = "returned" /\ last.ret = U32(32)
        /\ (last.op = "transcodeImage" /\ last.dst_cap = 31)
              => last.outcome # "returned" \/ last.ret = Zero32
        /\ (last.op = "transcodeImage" /\ last.dst_cap = 32)
              => last.outcome = "returned" /\ last.ret = U32(32)

(* C5 amended: in the scenario the size query returns 128 (16 blocks of 8    *)
(* bytes); transcodeImage into 127 bytes fails, the copy-out raising with    *)
(* nothing written; into 128 bytes it completes, copies 128 bytes and        *)
(* returns the codec's status, 0 or 1, and 1 only after startTranscoding.    *)
C5_Scenario128 ==
    ScenarioCall =>
        /\ last.op = "getImageTranscodedSizeInBytes"
              => last.outcome = "returned" /\ last.ret = U32(128)
        /\ (last.op = "transcodeImage" /\ last.dst_cap = 127)
              => last.outcome = "threw" /\ ~last.dst_written
        /\ (last.op = "transcodeImage" /\ last.dst_cap = 128)
              => /\ last.outcome = "returned"
                 /\ last.alloc.size = U32(128)
                 /\ last.dst_written
                 /\ last.ret \in {U32(0), U32(1)}
                 /\ last.ret = U32(1) => m_ready

\* transcodeImage into 128 bytes has succeeded in the scenario.
C5_Transcoded128 ==
    /\ ScenarioCall
    /\ last.op = "transcodeImage" /\ last.dst_cap = 128
    /\ last.outcome = "returned" /\ last.ret = U32(1)

(* C6: for a fixed format and totalBlocks the required size is monotonically *)
(* non-decreasing in width and height, over 32-bit values: the size just     *)
(* returned is at most the size of every level of the container that is as   *)
(* wide and as high and has as many blocks.  The uint32_t product wraps.     *)
C6_SizeIsMonotone ==
    SizeAnswered =>
        \A i2 \in Indices, l2 \in Indices :
            LET d2 == get_image_level_desc(m_file, i2, l2) IN
            (/\ d2.ok
             /\ d2.total_blocks = QLevel.total_blocks
             /\ NumLe(QLevel.orig_width, d2.orig_width)
             /\ NumLe(QLevel.orig_height, d2.orig_height))
                => NumLe(last.ret,
                         getImageTranscodedSizeInBytes_call(i2, l2, last.format).ret)

(* C7: once header validation has failed in the constructor, every query     *)
(* returns the neutral result and the stored buffer is empty.  Where         *)
(* assert() is compiled in, getFileDesc, getImageDesc and getImageLevelDesc  *)
(* abort instead of returning.                                               *)
C7_FailedValidationIsNeutral ==
    (validationFailed /\ last.op \in QueryOps)
        => ReturnedNeutral(last) /\ m_file = EmptyVec /\ ~last.codec.called

(* C8: after close() every query returns the neutral result without          *)
(* aborting.  Where assert() is compiled in, getFileDesc, getImageDesc and   *)
(* getImageLevelDesc abort on the cleared buffer.                            *)
C8_ClosedIsNeutral ==
    (closed /\ last.op \in QueryOps) => ReturnedNeutral(last)

(* C9: once close() has run or validation has failed the container is never  *)
(* valid again, and close() on a closed container returns and leaves it      *)
(* closed.                                                                   *)
C9_ClosedIsTerminal ==
    /\ []((closed \/ validationFailed) => ~Valid)
    /\ [][/\ closed => closed'
          /\ validationFailed => validationFailed'
          /\ (closed /\ last'.op = "close")
                => last'.outcome = "returned" /\ m_file' = EmptyVec /\ ~Valid']_vars

\* close() has been called on a closed container and has returned.
C9_ClosedTwice ==
    /\ reclosed /\ closed
    /\ last.op = "close" /\ last.outcome = "returned"
    /\ m_magic = MAGIC /\ m_file = EmptyVec

\* The index the last call was given is out of range for the container.
IndexOutOfRange ==
    \/ /\ last.op \in {"getNumLevels", "getImageDesc"}
       /\ ~HasImage(m_file, last.image_index)
    \/ /\ last.op \in {"getImageWidth", "getImageHeight", "getImageLevelDesc",
                       "getImageTranscodedSizeInBytes", "transcodeImage"}
       /\ ~HasLevel(m_file, last.image_index, last.level_index)

(* C10: on a valid container a query with an out-of-range image or level     *)
(* index returns the neutral result and does not abort.  Where assert() is   *)
(* compiled in, getImageDesc and getImageLevelDesc abort.                    *)
C10_BadIndexIsNeutral ==
    (Valid /\ IndexOutOfRange) => ReturnedNeutral(last) /\ ~last.codec.called

\* The image indices for which getImageDesc, called now, returns a result
\* that is not all zero.
DescribedImages ==
    {i \in Indices : LET r == getImageDesc_call(i)
                     IN  r.outcome = "returned" /\ r.ret # ZeroImageDesc}

(* C11: the totalImages field getFileDesc() returns equals the number of     *)
(* image indices for which getImageDesc(i) returns a non-neutral result, and *)
(* both are 0 for a closed or failed-validation container.  Where assert()   *)
(* is compiled in, getFileDesc() on such a container aborts and returns      *)
(* nothing.                                                                  *)
C11_TotalImagesCountsImageDescs ==
    (constructed /\ last.op = "getFileDesc")
        => /\ last.outcome = "returned"
           /\ NumEq(last.ret.m_total_images, U32(Cardinality(DescribedImages)))
           /\ (closed \/ validationFailed)
                 => last.ret.m_total_images = Zero32 /\ DescribedImages = {}

\* The session has decoded both its palettes and its tables.
SessionReady == session.exists /\ session.palettes /\ session.tables

(* C12: a transcode call on a session that has not completed both            *)
(* decodePalettes and decodeTables returns false and produces no output.     *)
(* Where assert() is compiled in, the call aborts at the assert(0) that      *)
(* follows the codec's failure.                                              *)
C12_TranscodeNeedsReady ==
    (last.op = "etc1s.transcodeImage" /\ ~SessionReady)
        => /\ last.outcome = "returned"
           /\ last.ret = FALSE
           /\ ~last.dst_written

(* C13: a transcode call on a session that is not yet ready allocates no     *)
(* output buffer and does not write the caller's destination.  The code      *)
(* allocates temp_output_blocks before it calls the codec, whatever the      *)
(* session has loaded.                                                       *)
C13_NotReadyAllocatesNothing ==
    (last.op = "etc1s.transcodeImage" /\ ~SessionReady)
        => ~last.alloc.done /\ ~last.dst_written

(* C14: decodePalettes with an empty endpoint or selector buffer, and        *)
(* decodeTables with an empty table buffer, return false without invoking    *)
(* the decoder and leave the session as it was.  Where assert() is compiled  *)
(* in, the calls abort instead of returning.                                 *)
C14_EmptyLoadFails ==
    [][(\/ /\ last'.op = "etc1s.decodePalettes"
           /\ (last'.args.endpoint_len = 0 \/ last'.args.selector_len = 0)
        \/ /\ last'.op = "etc1s.decodeTables"
           /\ last'.args.table_len = 0)
          => /\ last'.outcome = "returned"
             /\ last'.ret = FALSE
             /\ ~last'.codec.called
             /\ session' = session]_vars

(* C15: every transcode call of a session is handed the session's own        *)
(* previous-frame state: the state the codec reads is the state the call     *)
(* before left, the state it leaves is the session's state after the call,   *)
(* and no other call on the session changes it; so a second video frame      *)
(* is decoded against the first and not as a keyframe.                       *)
C15_StateIsCarriedOver ==
    [][IF last'.op = "etc1s.transcodeImage" /\ last'.codec.called
       THEN /\ last'.args.state_in = session.m_state
            /\ session'.m_state = last'.args.state_out
            /\ (last'.outcome = "returned" /\ last'.ret /\ last'.args.is_video)
                  => session'.m_state = session.m_state + 1
       ELSE session.exists => session'.m_state = session.m_state]_vars

\* The second of two video frames has been decoded against the first.
C15_SecondFrameDecoded ==
    /\ last.op = "etc1s.transcodeImage"
    /\ last.outcome = "returned" /\ last.ret = TRUE
    /\ last.args.is_video
    /\ last.args.state_in = 1
    /\ session.m_state = 2

(* C16: transcodeUASTCImage returns false if the source slice is empty or    *)
(* the destination capacity is insufficient; on every failing call the       *)
(* destination is untouched and on success it is fully written.  Where       *)
(* assert() is compiled in, the failing calls abort instead of returning.    *)
C16_UastcFailsCleanly ==
    last.op = "transcodeUASTCImage"
        => /\ (\/ last.args.compressed_len = 0
               \/ last.dst_cap = 0
               \/ last.args.capacity < UnitsNeeded(last.format))
                 => last.outcome = "returned" /\ last.ret = FALSE
           /\ (last.outcome = "returned" /\ last.ret = FALSE) => ~last.dst_written
           /\ last.outcome # "returned" => ~last.dst_written
           /\ (last.outcome = "returned" /\ last.ret = TRUE)
                 => last.dst_written /\ last.alloc.size = U32(last.dst_cap)

\* The entry points that return bytes in a destination of the caller.
BytesOps == {"transcodeImage", "etc1s.transcodeImage", "transcodeUASTCImage"}

\* The call returned success.
Succeeded(c) ==
    /\ c.outcome = "returned"
    /\ IF c.op = "transcodeImage" THEN c.ret # Zero32 ELSE c.ret = TRUE

(* C17: in every entry point that returns bytes in a destination of the      *)
(* caller, an empty source makes the call fail with the destination          *)
(* untouched, a destination smaller than the source makes it fail with no    *)
(* byte written, and only otherwise are the bytes copied and success         *)
(* returned.  basis_file::transcodeImage copies without copy_to_jsbuffer:    *)
(* it writes the destination and then returns the codec's failure.           *)
C17_CopyOutContract ==
    (last.op \in BytesOps /\ last.alloc.done)
        => /\ last.alloc.size = Zero32 => ~last.dst_written /\ ~Succeeded(last)
           /\ NumLt(U32(last.dst_cap), last.alloc.size)
                 => ~last.dst_written /\ ~Succeeded(last)
           /\ last.dst_written => Succeeded(last)

(* C18: whenever basis_file::transcodeImage returns 0 the destination of the *)
(* caller is unchanged.  The code copies dst_data to the destination         *)
(* whatever the codec's status was.                                          *)
C18_FailureLeavesDstUnchanged ==
    (last.op = "transcodeImage" /\ last.outcome = "returned" /\ last.ret = Zero32)
        => ~last.dst_written

(* C19: after any number of sequential calls of basis_init the one-time      *)
(* initialisation has run exactly once and the codebook has been allocated   *)
(* exactly once: a call that finds the codebook changes nothing, and the     *)
(* state after every call is the state after the first.                      *)
C19_InitIsIdempotent ==
    /\ [](initRuns <= 1 /\ (g_pGlobal_codebook <=> initRuns = 1))
    /\ [][last'.op = "basis_init"
            => /\ g_pGlobal_codebook' /\ initRuns' = 1
               /\ g_pGlobal_codebook
                     => UNCHANGED <<g_pGlobal_codebook, initRuns, fileVars, session>>]_vars

\* basis_init has been called with the codebook in place and has returned.
C19_InitializedAgain ==
    /\ initAgain
    /\ last.op = "basis_init" /\ last.outcome = "returned"
    /\ g_pGlobal_codebook /\ initRuns = 1

\* The queries of the container index.
IndexQueryOps ==
    {"getHasAlpha", "getNumImages", "getNumLevels", "getImageWidth", "getImageHeight",
     "getFileDesc", "getImageDesc", "getImageLevelDesc",
     "getImageTranscodedSizeInBytes", "isUASTC"}

\* The outcome of the query c made again, now.
Requeried(c) ==
    CASE c.op = "getHasAlpha" -> getHasAlpha_call
      [] c.op = "getNumImages" -> getNumImages_call
      [] c.op = "getNumLevels" -> getNumLevels_call(c.image_index)
      [] c.op = "getImageWidth" -> getImageWidth_call(c.image_index, c.level_index)
      [] c.op = "getImageHeight" -> getImageHeight_call(c.image_index, c.level_index)
      [] c.op = "getFileDesc" -> getFileDesc_call
      [] c.op = "getImageDesc" -> getImageDesc_call(c.image_index)
      [] c.op = "getImageLevelDesc" -> getImageLevelDesc_call(c.image_index, c.level_index)
      [] c.op = "getImageTranscodedSizeInBytes"
            -> getImageTranscodedSizeInBytes_call(c.image_index, c.level_index, c.format)
      [] c.op = "isUASTC" -> isUASTC_call

C21_CodecCapacityFitsBuffer ==
    (/\ last.op \in BytesOps
     /\ last.codec.called
     /\ last.format < cTFTotalTextureFormats)
        => /\ NumLe(BigMul(last.codec.capacity,
                           U32(basis_get_bytes_per_block_or_pixel(last.format))),
                    last.codec.buf_len)
           /\ last.outcome # "crashed"

(* C23: for both PVRTC1 formats the padded size transcodeImage allocates is  *)
(* never smaller than totalBlocks * bytesPerBlock, for every level the       *)
(* container index reports, so the assertion in transcodeImage never fails.  *)
(* The padded size is computed in uint32_t and wraps for large levels.       *)
C23_PvrtcPaddingCoversBlocks ==
    (OnLevel /\ last.op = "transcodeImage" /\ IsPvrtc1(last.format))
        => /\ last.outcome # "aborted"
           /\ last.alloc.done
           /\ NumLe(ExactBlocksSize(QLevel.total_blocks, last.format), last.alloc.size)

(* C25: for every valid container, level and format in range, the size       *)
(* getImageTranscodedSizeInBytes returns is the size of the buffer that      *)
(* transcodeImage allocates and copies out for the same arguments.           *)
C25_SizeQueryMatchesFacade ==
    /\ DstAllocated
          => LET q == getImageTranscodedSizeInBytes_call(last.image_index,
                                                         last.level_index, last.format)
             IN  q.outcome = "returned" /\ q.ret = last.alloc.size
    /\ SizeAnswered
          => \A cap \in DstCaps, decoded \in BOOLEAN, overrun \in Overruns :
                LET t == transcodeImage_call(last.image_index, last.level_index,
                                             last.format, cap, decoded, overrun)
                IN  t.alloc.done => t.alloc.size = last.ret

\* transcodeImage has copied out a buffer of the size the size query returns.
C25_CopiedOut ==
    /\ DstAllocated
    /\ last.outcome = "returned" /\ last.dst_written /\ last.ret = U32(1)
    /\ last.alloc.size # Zero32
    /\ last.alloc.size = getImageTranscodedSizeInBytes_call(last.image_index,
                                                            last.level_index,
                                                            last.format).ret

(* C26: whenever transcode_image of a session passes its "basis_init() must  *)
(* be called first" guard and invokes the codec, the codebook the session    *)
(* captured in its constructor is the initialised global codebook.  A        *)
(* session constructed before basis_init() has captured a null pointer, and  *)
(* the guard looks at the global, not at what the session holds.             *)
C26_SessionHoldsCodebook ==
    (last.op = "etc1s.transcodeImage" /\ last.codec.called) => session.codebook

(* C22: when two or more callers run basis_init concurrently, in every       *)
(* interleaving the one-time initialisation and the codebook allocation are  *)
(* performed exactly once.  The test and the assignment of the pointer are   *)
(* separate, unlocked statements: callers that test before the first         *)
(* assignment all initialise and allocate.                                   *)
C22_ConcurrentInitRunsOnce ==
    /\ initRuns <= 1
    /\ g_pGlobal_codebook => initRuns = 1

\* The UASTC call the caller has just made, made again with the same
\* arguments and the same bytes.
UastcAgain(overrun) ==
    transcode_uastc_image_call(last.format, last.dst_cap, last.args.capacity,
                               last.args.compressed_len, last.args.decoded, overrun)

(* C24: the UASTC call keeps no state: its success flag and the bytes it     *)
(* produces are a function of its arguments alone, so the same call made     *)
(* again has the same result, and it hands the codec no previous-frame       *)
(* state.  With a capacity larger than the buffer the codec writes past the  *)
(* end of temp_output_blocks, and what the call does then is undefined.      *)
C24_UastcIsFunctionOfArguments ==
    last.op = "transcodeUASTCImage"
        => /\ last.args.pState = "nullptr"
           /\ \A overrun \in Overruns :
                 /\ UastcAgain(overrun).outcome = last.outcome
                 /\ UastcAgain(overrun).ret = last.ret
                 /\ UastcAgain(overrun).dst_written = last.dst_written

=============================================================================
